---- MODULE Spec2Model ----
(***************************************************************************)
(* A model of the persisted (PostgreSQL) variant of the social-graph       *)
(* service: the request handlers of src/src/main.rs that keep the follow   *)
(* and like edge tables and their denormalised counters, run as            *)
(* concurrent processes against one transactional store.                   *)
(*                                                                         *)
(* Every await on the store is one step of a handler.  A transaction keeps *)
(* its writes private until COMMIT, holds the lock of every row or unique  *)
(* key it wrote until it ends, and is aborted as a whole by the first      *)
(* statement that fails in it (every later statement then fails and COMMIT *)
(* acts as ROLLBACK).  A statement may fail because of an injected storage *)
(* fault or because the store picked its transaction as a deadlock victim. *)
(*                                                                         *)
(* The read handlers (get_timeline, get_user_tweets) are checked on their  *)
(* own, under FeedSpec, on stores of up to a few tweets more than a        *)
(* timeline holds; register and update_profile under AccountSpec; all the  *)
(* handlers of main.rs together, for fewer requests, under ServiceSpec;    *)
(* and a mutation followed by its inverse under UndoSpec.                  *)
(***************************************************************************)
EXTENDS Integers, Sequences, FiniteSets, Bags, TLC

\* ------------------------------------------------------------------ bounds
NumUsers == 2
NumProcs == 2
MaxTweets == 2
MaxReqs == 3
MaxFaults == 1

Users == 1..NumUsers
Procs == 1..NumProcs
NoUser == 0
NoTweet == 0
Names == Users \cup {NoUser}

\* A registered user who sends no request.
Bystander == NumUsers + 1

\* The user id of a token that is still valid (tokens live for days and are
\* never checked against the users table) while no row has the id.
Stranger == NumUsers + 2

VARIABLES db, nextTweet, pc, req, tx, h, last, okFollows, reqs, faults, undo

vars == <<db, nextTweet, pc, req, tx, h, last, okFollows, reqs, faults, undo>>

\* ------------------------------------------------------- response envelope
\* ApiResponse { success, data, message } with its HTTP status.
ApiResponse(status, success, data, message) ==
    [status |-> status, success |-> success, data |-> data, message |-> message]

\* Option<T>: Some(x) is the one-element sequence of x, None the empty one.
Some(x) == <<x>>
None == <<>>

Success(status, data, message) == ApiResponse(status, TRUE, Some(data), message)

\* A failure envelope that still carries a payload.
FailureWithData(status, message) == ApiResponse(status, FALSE, Some(message), message)

\* `ApiResponse::<()> { success: false, data: None, message: Some(..) }`
Failure(status, message) == ApiResponse(status, FALSE, None, message)

Unauthorized == Failure(401, "auth")
NoResp == ApiResponse(0, FALSE, None, "None")

\* --------------------------------------------------------------- requests
\* UpdateProfileRequest: four optional fields.
UpdateProfileRequest(display_name, bio, profile_image, banner_image) ==
    [display_name |-> display_name, bio |-> bio,
     profile_image |-> profile_image, banner_image |-> banner_image]

NoBody == UpdateProfileRequest(None, None, None, None)

Request(op, caller, name, tweet, len) ==
    [op |-> op, user_id |-> caller, username |-> name, target |-> NoUser,
     tweet_id |-> tweet, len |-> len, email |-> NoUser, password |-> "",
     body |-> NoBody]

NoReq == Request("none", NoUser, NoUser, NoTweet, 0)

\* ------------------------------------------------------------ the store
\* A write of a transaction: an edge insert, an edge delete or a counter update.
Write(kind, tbl, key, col, d, tag) ==
    [kind |-> kind, tbl |-> tbl, key |-> key, col |-> col, d |-> d, tag |-> tag]

\* SELECT * FROM users WHERE username = $1 (usernames are unique; user u has
\* the username u).
UserByUsername(name) == IF name \in Users THEN name ELSE NoUser

\* `following_count = following_count + 1`, `likes_count = likes_count - 1`:
\* the SET expression of a counter UPDATE, plain integer arithmetic.
CounterAfter(count, w) == count + w.d

\* follows is the bag of the rows of the table (a pair with two rows would
\* be in it twice); DELETE .. WHERE removes every row that matches.
ApplyWrite(d, w) ==
    CASE w.tbl = "follows" /\ w.kind = "ins" ->
            [d EXCEPT !.follows = @ (+) SetToBag({w.key})]
      [] w.tbl = "follows" /\ w.kind = "del" ->
            [d EXCEPT !.follows = [k \in DOMAIN @ \ {w.key} |-> @[k]]]
      [] w.tbl = "likes" /\ w.kind = "ins" -> [d EXCEPT !.likes = @ \cup {w.key}]
      [] w.tbl = "likes" /\ w.kind = "del" -> [d EXCEPT !.likes = @ \ {w.key}]
      [] w.tbl = "users" -> [d EXCEPT !.users[w.key[1]][w.col] = CounterAfter(@, w)]
      [] w.tbl = "tweets" ->
            IF w.key[1] \in DOMAIN d.tweets
            THEN [d EXCEPT !.tweets[w.key[1]][w.col] = CounterAfter(@, w)]
            ELSE d

RECURSIVE ApplyAll(_, _)
ApplyAll(d, ws) ==
    IF ws = <<>> THEN d ELSE ApplyAll(ApplyWrite(d, Head(ws)), Tail(ws))

Tags(ws) == {ws[i].tag : i \in 1..Len(ws)}

\* A schema without the uniqueness constraints.
NoUniqueConstraint(rows, key) == FALSE

\* The schema's uniqueness constraints on (follows.follower_id,
\* follows.following_id) and (likes.user_id, likes.tweet_id): a row with the
\* key of a committed row cannot be inserted.
ViolatesUnique(rows, key) == key \in rows

\* The schema's check constraint follows.follower_id <> follows.following_id.
ViolatesCheck(key) == key[1] = key[2]

\* A row of tweets as INSERT INTO tweets (user_id, content, image_url)
\* stores it: the counters and created_at take the schema's defaults (zero,
\* and the store's clock).
NewTweetRow(owner, at) ==
    [user_id |-> owner, likes_count |-> 0, retweets_count |-> 0,
     replies_count |-> 0, created_at |-> at]

\* A row of users as INSERT INTO users (username, email, password_hash,
\* display_name) stores it: every other column takes the schema's default
\* (NULL, zero, false).  A column holds None (NULL) or Some value.
NewUserRow(username, email, password_hash, display_name) ==
    [username |-> username, email |-> email, password_hash |-> password_hash,
     display_name |-> Some(display_name), bio |-> None, profile_image |-> None,
     banner_image |-> None, followers_count |-> 0, following_count |-> 0,
     verified |-> FALSE]

\* A DELETE whose WHERE clause names the tweet only.
AnyTweet(d, t, u) == t \in DOMAIN d.tweets

\* .. FROM tweets WHERE id = $1 AND user_id = $2
OwnedBy(d, t, u) == t \in DOMAIN d.tweets /\ d.tweets[t].user_id = u

NoTx == [active |-> FALSE, aborted |-> FALSE, writes |-> <<>>]
Begun == [active |-> TRUE, aborted |-> FALSE, writes |-> <<>>]
Aborted == [active |-> TRUE, aborted |-> TRUE, writes |-> <<>>]

\* The locks a transaction holds: the rows and unique keys it has written.
Locks(t) == {<<t.writes[i].tbl, t.writes[i].key>> : i \in 1..Len(t.writes)}

NoLock == <<"none", <<0, 0>>>>

HeldByOther(p, lock) ==
    lock # NoLock /\ \E q \in Procs \ {p} : lock \in Locks(tx[q])

\* The statement run on the pool instead of the transaction
\* (`.execute(&state.db)`): its write is committed on its own, at once.
ExecuteOnPool(d, t, w) == [db |-> ApplyWrite(d, w), tx |-> t, vis |-> {w.tag}]

\* sqlx's `.execute(&mut *tx)`: the statement's write goes to the handler's
\* transaction and stays invisible to every other connection until COMMIT.
Execute(d, t, w) ==
    [db |-> d, tx |-> [t EXCEPT !.writes = Append(@, w)], vis |-> {}]

\* COMMIT: every write of the transaction becomes visible in one step.
Commit(d, t) == [db |-> ApplyAll(d, t.writes), vis |-> Tags(t.writes)]

\* ------------------------------------------------- history of one request
\* vis: the writes of the request that are part of the committed state;
\* failed: a statement or the COMMIT of its transaction failed in the store;
\* uniq: its INSERT hit the uniqueness constraint; victim: the store aborted
\* it to break a deadlock; saw: what the edge table held when the handler
\* looked for its edge; checkErr: the existence pre-check query failed;
\* rows: rows_affected of its INSERT or DELETE; committed: its COMMIT applied;
\* feed: the rows its feed query returned; out: the responses assembled from
\* them so far; lookupErr: one of its per-tweet like lookups failed; seen:
\* for each of its like lookups, the likes_count the tweet had in the
\* committed state the lookup read (-1 if the tweet was no longer stored).
NoHist ==
    [vis |-> {}, failed |-> FALSE, uniq |-> FALSE, victim |-> FALSE,
     saw |-> "none", checkErr |-> FALSE, rows |-> -1, committed |-> FALSE,
     feed |-> <<>>, out |-> <<>>, lookupErr |-> FALSE, seen |-> <<>>]

\* ------------------------------------------------------ locks and waiting
FollowKey(r) == <<r.user_id, r.target>>
LikeKey(r) == <<r.user_id, r.tweet_id>>
UserRow(u) == <<u, 0>>
TweetRow(t) == <<t, 0>>

\* The lock the next statement of p has to acquire.
Needs(p) ==
    IF tx[p].aborted THEN NoLock
    ELSE CASE pc[p] = "follow_insert" -> <<"follows", FollowKey(req[p])>>
           [] pc[p] = "unfollow_delete" ->
                IF BagIn(FollowKey(req[p]), db.follows)
                THEN <<"follows", FollowKey(req[p])>> ELSE NoLock
           [] pc[p] \in {"follow_upd1", "unfollow_upd1"} ->
                <<"users", UserRow(req[p].user_id)>>
           [] pc[p] \in {"follow_upd2", "unfollow_upd2"} ->
                <<"users", UserRow(req[p].target)>>
           [] pc[p] = "like_insert" -> <<"likes", LikeKey(req[p])>>
           [] pc[p] = "unlike_delete" ->
                IF LikeKey(req[p]) \in db.likes
                THEN <<"likes", LikeKey(req[p])>> ELSE NoLock
           [] pc[p] \in {"like_update", "unlike_update"} ->
                IF req[p].tweet_id \in DOMAIN db.tweets
                THEN <<"tweets", TweetRow(req[p].tweet_id)>> ELSE NoLock
           [] pc[p] = "delete_exec" ->
                IF OwnedBy(db, req[p].tweet_id, req[p].user_id)
                THEN <<"tweets", TweetRow(req[p].tweet_id)>> ELSE NoLock
           [] OTHER -> NoLock

Blocked(p) == HeldByOther(p, Needs(p))

\* The transactions p waits for.
WaitsFor(p) == {q \in Procs \ {p} : Needs(p) # NoLock /\ Needs(p) \in Locks(tx[q])}

RECURSIVE Reach(_, _)
Reach(S, n) ==
    IF n = 0 THEN S ELSE Reach(S \cup UNION {WaitsFor(q) : q \in S}, n - 1)

\* The store's deadlock detector: p waits in a cycle of waiting transactions.
InCycle(p) == p \in Reach(WaitsFor(p), NumProcs)

\* A statement of p's transaction can fail: the transaction is aborted
\* already, a storage fault is injected, or p is chosen as a deadlock victim.
StmtErr(p) == tx[p].aborted \/ faults > 0 \/ InCycle(p)
FaultsAfterErr(p) == IF tx[p].aborted \/ InCycle(p) THEN faults ELSE faults - 1

\* ------------------------------------------------------- handler plumbing
\* A free worker takes the next request.  Free workers are interchangeable,
\* so the first of them takes it.
CanStart(p) ==
    /\ pc[p] = "idle"
    /\ reqs > 0
    /\ \A q \in Procs : q < p => pc[q] # "idle"

\* `last` holds the response a handler returns in the step that returns it,
\* with the request and its history, and nothing in every other step.
NoLast == [proc |-> 0, req |-> NoReq, resp |-> NoResp, h |-> NoHist]

\* The handler returns its response; its transaction, if any, has ended and
\* its worker is free again.
Reply(p, r, rs, hist) ==
    /\ pc' = [pc EXCEPT ![p] = "idle"]
    /\ req' = [req EXCEPT ![p] = NoReq]
    /\ h' = [h EXCEPT ![p] = NoHist]
    /\ tx' = [tx EXCEPT ![p] = NoTx]
    /\ last' = [proc |-> p, req |-> r, resp |-> rs, h |-> hist]

Goto(p, r, next, hist) ==
    /\ pc' = [pc EXCEPT ![p] = next]
    /\ req' = [req EXCEPT ![p] = r]
    /\ h' = [h EXCEPT ![p] = hist]
    /\ last' = NoLast

\* ------------------------------------------- a mutation and its inverse
\* `undo` follows a like or a follow that runs with no other request in
\* progress, answers with success and is followed, with no other request in
\* between, by the unlike or the unfollow of the same pair: "first" while
\* the mutation runs, "between" after its success, "second" while the
\* inverse runs, "done" when the inverse has answered with success.  `before`
\* is the store the mutation started on.  "off": nothing is followed.
Undo(phase, op, key, before) ==
    [phase |-> phase, op |-> op, key |-> key, before |-> before]

Inverse(op) ==
    CASE op = "like" -> "unlike"
      [] op = "follow" -> "unfollow"
      [] OTHER -> "none"

PairOf(r) == IF r.op \in {"follow", "unfollow"} THEN FollowKey(r) ELSE LikeKey(r)

Track ==
    LET started == reqs' < reqs
        alone == \A p \in Procs : pc[p] = "idle"
        newp == {p \in Procs : pc[p] = "idle" /\ pc'[p] # "idle"}
        none == Undo("none", "none", <<0, 0>>, undo.before)
    IN  undo' =
          IF undo.phase = "off" THEN undo
          ELSE IF started
          THEN IF alone /\ newp # {}
               THEN LET r == req'[CHOOSE p \in newp : TRUE]
                    IN  IF r.op \in {"like", "follow"}
                        THEN Undo("first", r.op, PairOf(r), db)
                        ELSE IF /\ undo.phase = "between"
                                /\ r.op = Inverse(undo.op)
                                /\ PairOf(r) = undo.key
                        THEN [undo EXCEPT !.phase = "second"]
                        ELSE none
               ELSE none
          ELSE IF last'.proc # 0
          THEN IF undo.phase \in {"first", "second"} /\ last'.resp.success
               THEN [undo EXCEPT !.phase = IF @ = "first" THEN "between" ELSE "done"]
               ELSE none
          ELSE undo

\* A handler that repeats a failed statement until it succeeds.
RetryUntilOk(cur, next, ok) == IF ok THEN next ELSE cur

\* `let _ = sqlx::query(..).execute(&mut *tx).await;`: the result of the
\* statement is discarded and the handler goes on to its next statement.
AfterIgnored(cur, next, ok) == next

\* A counter UPDATE inside the transaction whose result the handler ignores.
IgnoredUpdate(p, w, next) ==
    \/ /\ ~tx[p].aborted /\ ~Blocked(p)
       /\ LET e == Execute(db, tx[p], w)
          IN  /\ db' = e.db
              /\ tx' = [tx EXCEPT ![p] = e.tx]
              /\ h' = [h EXCEPT ![p].vis = @ \cup e.vis]
       /\ pc' = [pc EXCEPT ![p] = AfterIgnored(pc[p], next, TRUE)]
       /\ UNCHANGED faults
    \/ /\ StmtErr(p)
       /\ faults' = FaultsAfterErr(p)
       /\ tx' = [tx EXCEPT ![p] = Aborted]
       /\ h' = [h EXCEPT ![p].failed = TRUE,
                         ![p].victim = @ \/ (~tx[p].aborted /\ InCycle(p))]
       /\ pc' = [pc EXCEPT ![p] = AfterIgnored(pc[p], next, FALSE)]
       /\ UNCHANGED db

\* `let _ = tx.commit().await;` followed by the success response `rs`.
IgnoredCommit(p, rs) ==
    \/ /\ ~tx[p].aborted
       /\ LET c == Commit(db, tx[p])
          IN  /\ db' = c.db
              /\ Reply(p, req[p], rs,
                       [h[p] EXCEPT !.vis = @ \cup c.vis, !.committed = TRUE])
       /\ UNCHANGED faults
    \/ /\ tx[p].aborted
       /\ Reply(p, req[p], rs, h[p])
       /\ UNCHANGED <<db, faults>>
    \/ /\ ~tx[p].aborted /\ faults > 0
       /\ faults' = faults - 1
       /\ Reply(p, req[p], rs, [h[p] EXCEPT !.failed = TRUE])
       /\ UNCHANGED db

\* ---------------------------------------------------------- follow_user
InsertFollow(r) == Write("ins", "follows", FollowKey(r), "none", 0, "edge")
DeleteFollow(r) == Write("del", "follows", FollowKey(r), "none", 0, "edge")

\* UPDATE users SET following_count = following_count + 1 WHERE id = follower_id
IncrFollowing(r) ==
    Write("upd", "users", UserRow(r.user_id), "following_count", 1, "following_count")
\* The increment applied to the row of a user outside the pair.
IncrFollowersOfBystander(r) ==
    Write("upd", "users", UserRow(Bystander), "followers_count", 1, "followers_count")
\* UPDATE users SET followers_count = followers_count + 1 WHERE id = following_id
IncrFollowers(r) ==
    Write("upd", "users", UserRow(r.target), "followers_count", 1, "followers_count")
\* The decrement applied twice.
DecrFollowingTwice(r) ==
    Write("upd", "users", UserRow(r.user_id), "following_count", -2, "following_count")
\* UPDATE users SET following_count = following_count - 1 WHERE id = follower_id
DecrFollowing(r) ==
    Write("upd", "users", UserRow(r.user_id), "following_count", -1, "following_count")
\* The decrement applied to the follower's row instead of the target's.
DecrFollowersOfFollower(r) ==
    Write("upd", "users", UserRow(r.user_id), "followers_count", -1, "followers_count")
DecrFollowers(r) ==
    Write("upd", "users", UserRow(r.target), "followers_count", -1, "followers_count")

\* The self-follow check dropped from the handler.
NeverSelfFollow(follower_id, following_id) == FALSE

\* `if follower_id == following_id`
IsSelfFollow(follower_id, following_id) == follower_id = following_id

\* Token check, SELECT of the target by username, self-follow check.
follow_user_resolve(p) ==
    /\ CanStart(p)
    /\ reqs' = reqs - 1
    /\ \E caller \in Names, name \in Names :
         LET r == Request("follow", caller, name, NoTweet, 0)
             found == UserByUsername(name)
         IN  /\ caller = NoUser => name = NoUser
             /\ \/ /\ caller = NoUser
                   /\ Reply(p, r, Unauthorized, NoHist)
                   /\ UNCHANGED faults
                \/ /\ caller # NoUser /\ faults > 0
                   /\ faults' = faults - 1
                   /\ Reply(p, r, Failure(500, "Database error"), NoHist)
                \/ /\ caller # NoUser /\ found = NoUser
                   /\ Reply(p, r, Failure(404, "User not found"), NoHist)
                   /\ UNCHANGED faults
                \/ /\ caller # NoUser /\ found # NoUser /\ IsSelfFollow(caller, found)
                   /\ Reply(p, [r EXCEPT !.target = found],
                            Failure(400, "Cannot follow yourself"), NoHist)
                   /\ UNCHANGED faults
                \/ /\ caller # NoUser /\ found # NoUser /\ ~IsSelfFollow(caller, found)
                   /\ Goto(p, [r EXCEPT !.target = found], "follow_insert", NoHist)
                   /\ UNCHANGED <<faults, tx>>
    /\ UNCHANGED <<db, nextTweet, okFollows>>
    /\ Track

\* BEGIN, then INSERT INTO follows .. ON CONFLICT DO NOTHING.
follow_user_insert(p) ==
    /\ pc[p] = "follow_insert"
    /\ \/ /\ faults > 0                                   \* BEGIN fails
          /\ faults' = faults - 1
          /\ Reply(p, req[p], Failure(500, "Database error"), h[p])
          /\ UNCHANGED db
       \/ /\ faults > 0                                   \* the INSERT fails
          /\ faults' = faults - 1
          /\ Reply(p, req[p], Failure(500, "Failed to follow user"),
                   [h[p] EXCEPT !.failed = TRUE])
          /\ UNCHANGED db
       \/ /\ ViolatesCheck(FollowKey(req[p]))               \* the INSERT is rejected
          /\ Reply(p, req[p], Failure(500, "Failed to follow user"),
                   [h[p] EXCEPT !.failed = TRUE])
          /\ UNCHANGED <<db, faults>>
       \/ /\ ~ViolatesCheck(FollowKey(req[p]))
          /\ ~Blocked(p) /\ ViolatesUnique(BagToSet(db.follows), FollowKey(req[p]))   \* rows_affected = 0
          /\ Reply(p, req[p], Failure(400, "Already following this user"),
                   [h[p] EXCEPT !.saw = "present", !.rows = 0])
          /\ UNCHANGED <<db, faults>>
       \/ /\ ~ViolatesCheck(FollowKey(req[p]))
          /\ ~Blocked(p) /\ ~ViolatesUnique(BagToSet(db.follows), FollowKey(req[p]))
          /\ LET e == Execute(db, Begun, InsertFollow(req[p]))
             IN  /\ db' = e.db
                 /\ tx' = [tx EXCEPT ![p] = e.tx]
                 /\ h' = [h EXCEPT ![p].vis = @ \cup e.vis,
                                   ![p].saw = "absent", ![p].rows = 1]
          /\ pc' = [pc EXCEPT ![p] = "follow_upd1"]
          /\ UNCHANGED <<req, faults>>
          /\ last' = NoLast
    /\ UNCHANGED <<nextTweet, okFollows, reqs>>
    /\ Track

follow_user_upd1(p) ==
    /\ pc[p] = "follow_upd1"
    /\ IgnoredUpdate(p, IncrFollowing(req[p]), "follow_upd2")
    /\ last' = NoLast
    /\ UNCHANGED <<nextTweet, req, okFollows, reqs>>
    /\ Track

follow_user_upd2(p) ==
    /\ pc[p] = "follow_upd2"
    /\ IgnoredUpdate(p, IncrFollowers(req[p]), "follow_commit")
    /\ last' = NoLast
    /\ UNCHANGED <<nextTweet, req, okFollows, reqs>>
    /\ Track

follow_user_commit(p) ==
    /\ pc[p] = "follow_commit"
    /\ IgnoredCommit(p, Success(200, "User followed successfully", "None"))
    /\ okFollows' = [okFollows EXCEPT ![FollowKey(req[p])] = @ + 1]
    /\ UNCHANGED <<nextTweet, reqs>>
    /\ Track

follow_user(p) ==
    \/ follow_user_resolve(p)
    \/ follow_user_insert(p)
    \/ follow_user_upd1(p)
    \/ follow_user_upd2(p)
    \/ follow_user_commit(p)

\* -------------------------------------------------------- unfollow_user
unfollow_user_resolve(p) ==
    /\ CanStart(p)
    /\ reqs' = reqs - 1
    /\ \E caller \in Names, name \in Names :
         LET r == Request("unfollow", caller, name, NoTweet, 0)
             found == UserByUsername(name)
         IN  /\ caller = NoUser => name = NoUser
             /\ \/ /\ caller = NoUser
                   /\ Reply(p, r, Unauthorized, NoHist)
                   /\ UNCHANGED faults
                \/ /\ caller # NoUser /\ faults > 0
                   /\ faults' = faults - 1
                   /\ Reply(p, r, Failure(500, "Database error"), NoHist)
                \/ /\ caller # NoUser /\ found = NoUser
                   /\ Reply(p, r, Failure(404, "User not found"), NoHist)
                   /\ UNCHANGED faults
                \/ /\ caller # NoUser /\ found # NoUser
                   /\ Goto(p, [r EXCEPT !.target = found], "unfollow_delete", NoHist)
                   /\ UNCHANGED <<faults, tx>>
    /\ UNCHANGED <<db, nextTweet, okFollows>>
    /\ Track

\* `Ok(result) if result.rows_affected() > 0`
UnfollowDeleted(rows) == rows > 0

\* BEGIN, then DELETE FROM follows WHERE follower_id = $1 AND following_id = $2.
unfollow_user_delete(p) ==
    /\ pc[p] = "unfollow_delete"
    /\ \/ /\ faults > 0                                   \* BEGIN fails
          /\ faults' = faults - 1
          /\ Reply(p, req[p], Failure(500, "Database error"), h[p])
          /\ UNCHANGED db
       \/ /\ faults > 0                                   \* the DELETE fails
          /\ faults' = faults - 1
          /\ Reply(p, req[p], Failure(404, "Not following this user"),
                   [h[p] EXCEPT !.failed = TRUE])
          /\ UNCHANGED db
       \/ /\ ~Blocked(p)
          /\ ~UnfollowDeleted(CopiesIn(FollowKey(req[p]), db.follows))
          /\ Reply(p, req[p], Failure(404, "Not following this user"),
                   [h[p] EXCEPT !.saw = "absent", !.rows = 0])
          /\ UNCHANGED <<db, faults>>
       \/ /\ ~Blocked(p)
          /\ UnfollowDeleted(CopiesIn(FollowKey(req[p]), db.follows))
          /\ LET e == Execute(db, Begun, DeleteFollow(req[p]))
             IN  /\ db' = e.db
                 /\ tx' = [tx EXCEPT ![p] = e.tx]
                 /\ h' = [h EXCEPT ![p].vis = @ \cup e.vis,
                                   ![p].saw = "present",
                                   ![p].rows = CopiesIn(FollowKey(req[p]), db.follows)]
          /\ pc' = [pc EXCEPT ![p] = "unfollow_upd1"]
          /\ UNCHANGED <<req, faults>>
          /\ last' = NoLast
    /\ UNCHANGED <<nextTweet, okFollows, reqs>>
    /\ Track

unfollow_user_upd1(p) ==
    /\ pc[p] = "unfollow_upd1"
    /\ IgnoredUpdate(p, DecrFollowing(req[p]), "unfollow_upd2")
    /\ last' = NoLast
    /\ UNCHANGED <<nextTweet, req, okFollows, reqs>>
    /\ Track

unfollow_user_upd2(p) ==
    /\ pc[p] = "unfollow_upd2"
    /\ IgnoredUpdate(p, DecrFollowers(req[p]), "unfollow_commit")
    /\ last' = NoLast
    /\ UNCHANGED <<nextTweet, req, okFollows, reqs>>
    /\ Track

unfollow_user_commit(p) ==
    /\ pc[p] = "unfollow_commit"
    /\ IgnoredCommit(p, Success(200, "User unfollowed successfully", "None"))
    /\ okFollows' = IF last'.h.committed
                    THEN [okFollows EXCEPT ![FollowKey(req[p])] = 0]
                    ELSE okFollows
    /\ UNCHANGED <<nextTweet, reqs>>
    /\ Track

unfollow_user(p) ==
    \/ unfollow_user_resolve(p)
    \/ unfollow_user_delete(p)
    \/ unfollow_user_upd1(p)
    \/ unfollow_user_upd2(p)
    \/ unfollow_user_commit(p)

\* ------------------------------------------------------------ like_tweet
InsertLike(r) == Write("ins", "likes", LikeKey(r), "none", 0, "edge")
DeleteLike(r) == Write("del", "likes", LikeKey(r), "none", 0, "edge")

\* UPDATE tweets SET likes_count = likes_count + 1 WHERE id = $1
IncrLikes(r) ==
    Write("upd", "tweets", TweetRow(r.tweet_id), "likes_count", 1, "likes_count")
\* The unlike handler with the increment of the like handler copied into it.
DecrLikesIncrements(r) ==
    Write("upd", "tweets", TweetRow(r.tweet_id), "likes_count", 1, "likes_count")
\* UPDATE tweets SET likes_count = likes_count - 1 WHERE id = $1
DecrLikes(r) ==
    Write("upd", "tweets", TweetRow(r.tweet_id), "likes_count", -1, "likes_count")

\* The tweet ids a request can name: the ids handed out so far, and the id
\* of no tweet.
KnownTweets == 0..(nextTweet - 1)

\* The pre-check with its test inverted (`if let Ok(false) = exists`).
AlreadyLikedInverted(exists) == exists = "false"

\* `if let Ok(true) = exists`: the early return of the pre-check.
AlreadyLiked(exists) == exists = "true"

\* The response to a failed INSERT INTO likes.
LikeInsertError == Failure(500, "Failed to like tweet")

\* Token check, then SELECT EXISTS(.. FROM likes ..) outside any transaction.
like_tweet_check(p) ==
    /\ CanStart(p)
    /\ reqs' = reqs - 1
    /\ \E caller \in Names, t \in KnownTweets :
         LET r == Request("like", caller, NoUser, t, 0)
             present == <<caller, t>> \in db.likes
             hist == [NoHist EXCEPT !.saw = IF present THEN "present" ELSE "absent"]
         IN  /\ caller = NoUser => t = NoTweet
             /\ \/ /\ caller = NoUser
                   /\ Reply(p, r, Unauthorized, NoHist)
                   /\ UNCHANGED faults
                \/ /\ caller # NoUser /\ faults > 0       \* the query fails
                   /\ faults' = faults - 1
                   /\ IF AlreadyLiked("error")
                      THEN Reply(p, r, Failure(400, "Already liked this tweet"),
                                 [hist EXCEPT !.checkErr = TRUE])
                      ELSE /\ Goto(p, r, "like_insert", [hist EXCEPT !.checkErr = TRUE])
                           /\ UNCHANGED tx
                \/ /\ caller # NoUser
                   /\ IF AlreadyLiked(IF present THEN "true" ELSE "false")
                      THEN Reply(p, r, Failure(400, "Already liked this tweet"), hist)
                      ELSE /\ Goto(p, r, "like_insert", hist)
                           /\ UNCHANGED tx
                   /\ UNCHANGED faults
    /\ UNCHANGED <<db, nextTweet, okFollows>>
    /\ Track

\* BEGIN, then INSERT INTO likes (user_id, tweet_id).
like_tweet_insert(p) ==
    /\ pc[p] = "like_insert"
    /\ \/ /\ faults > 0                                   \* BEGIN fails
          /\ faults' = faults - 1
          /\ Reply(p, req[p], Failure(500, "Database error"), h[p])
          /\ UNCHANGED db
       \/ /\ faults > 0                                   \* the INSERT fails
          /\ faults' = faults - 1
          /\ Reply(p, req[p], LikeInsertError, [h[p] EXCEPT !.failed = TRUE])
          /\ UNCHANGED db
       \/ /\ ~Blocked(p) /\ ViolatesUnique(db.likes, LikeKey(req[p]))   \* the INSERT is a duplicate
          /\ Reply(p, req[p], LikeInsertError, [h[p] EXCEPT !.uniq = TRUE])
          /\ UNCHANGED <<db, faults>>
       \/ /\ ~Blocked(p) /\ ~ViolatesUnique(db.likes, LikeKey(req[p]))
          /\ LET e == Execute(db, Begun, InsertLike(req[p]))
             IN  /\ db' = e.db
                 /\ tx' = [tx EXCEPT ![p] = e.tx]
                 /\ h' = [h EXCEPT ![p].vis = @ \cup e.vis, ![p].rows = 1]
          /\ pc' = [pc EXCEPT ![p] = "like_update"]
          /\ UNCHANGED <<req, faults>>
          /\ last' = NoLast
    /\ UNCHANGED <<nextTweet, okFollows, reqs>>
    /\ Track

\* UPDATE tweets SET likes_count = likes_count + 1; an error rolls back.
like_tweet_update(p) ==
    /\ pc[p] = "like_update"
    /\ \/ /\ ~Blocked(p)
          /\ LET e == Execute(db, tx[p], IncrLikes(req[p]))
             IN  /\ db' = e.db
                 /\ tx' = [tx EXCEPT ![p] = e.tx]
                 /\ h' = [h EXCEPT ![p].vis = @ \cup e.vis]
          /\ pc' = [pc EXCEPT ![p] = "like_commit"]
          /\ UNCHANGED <<req, faults>>
          /\ last' = NoLast
       \/ /\ StmtErr(p)
          /\ faults' = FaultsAfterErr(p)
          /\ Reply(p, req[p], Failure(500, "Database error"),
                   [h[p] EXCEPT !.failed = TRUE,
                                !.victim = @ \/ InCycle(p)])
          /\ UNCHANGED db
    /\ UNCHANGED <<nextTweet, okFollows, reqs>>
    /\ Track

like_tweet_commit(p) ==
    /\ pc[p] = "like_commit"
    /\ IgnoredCommit(p, Success(200, "Tweet liked successfully", "None"))
    /\ UNCHANGED <<nextTweet, okFollows, reqs>>
    /\ Track

like_tweet(p) ==
    \/ like_tweet_check(p)
    \/ like_tweet_insert(p)
    \/ like_tweet_update(p)
    \/ like_tweet_commit(p)

\* ---------------------------------------------------------- unlike_tweet
unlike_tweet_start(p) ==
    /\ CanStart(p)
    /\ reqs' = reqs - 1
    /\ \E caller \in Names, t \in KnownTweets :
         LET r == Request("unlike", caller, NoUser, t, 0)
         IN  /\ caller = NoUser => t = NoTweet
             /\ \/ /\ caller = NoUser
                   /\ Reply(p, r, Unauthorized, NoHist)
                \/ /\ caller # NoUser
                   /\ Goto(p, r, "unlike_delete", NoHist)
                   /\ UNCHANGED tx
    /\ UNCHANGED <<db, nextTweet, okFollows, faults>>
    /\ Track

\* The DELETE's row count read as "no error" instead of "a row was deleted".
UnlikeDeletedOrNot(rows) == rows >= 0

\* `Ok(result) if result.rows_affected() > 0`
UnlikeDeleted(rows) == rows > 0

\* rows_affected of DELETE FROM likes WHERE user_id = $1 AND tweet_id = $2
LikeRows(d, key) == IF key \in d.likes THEN 1 ELSE 0

\* BEGIN, then DELETE FROM likes WHERE user_id = $1 AND tweet_id = $2.
unlike_tweet_delete(p) ==
    /\ pc[p] = "unlike_delete"
    /\ \/ /\ faults > 0                                   \* BEGIN fails
          /\ faults' = faults - 1
          /\ Reply(p, req[p], Failure(500, "Database error"), h[p])
          /\ UNCHANGED db
       \/ /\ faults > 0                                   \* the DELETE fails
          /\ faults' = faults - 1
          /\ Reply(p, req[p], Failure(404, "Like not found"),
                   [h[p] EXCEPT !.failed = TRUE])
          /\ UNCHANGED db
       \/ /\ ~Blocked(p)
          /\ ~UnlikeDeleted(LikeRows(db, LikeKey(req[p])))
          /\ Reply(p, req[p], Failure(404, "Like not found"),
                   [h[p] EXCEPT !.saw = "absent", !.rows = 0])
          /\ UNCHANGED <<db, faults>>
       \/ /\ ~Blocked(p)
          /\ UnlikeDeleted(LikeRows(db, LikeKey(req[p])))
          /\ LET e == Execute(db, Begun, DeleteLike(req[p]))
             IN  /\ db' = e.db
                 /\ tx' = [tx EXCEPT ![p] = e.tx]
                 /\ h' = [h EXCEPT ![p].vis = @ \cup e.vis,
                                   ![p].saw = IF LikeRows(db, LikeKey(req[p])) > 0
                                              THEN "present" ELSE "absent",
                                   ![p].rows = LikeRows(db, LikeKey(req[p]))]
          /\ pc' = [pc EXCEPT ![p] = "unlike_update"]
          /\ UNCHANGED <<req, faults>>
          /\ last' = NoLast
    /\ UNCHANGED <<nextTweet, okFollows, reqs>>
    /\ Track

unlike_tweet_update(p) ==
    /\ pc[p] = "unlike_update"
    /\ IgnoredUpdate(p, DecrLikes(req[p]), "unlike_commit")
    /\ last' = NoLast
    /\ UNCHANGED <<nextTweet, req, okFollows, reqs>>
    /\ Track

unlike_tweet_commit(p) ==
    /\ pc[p] = "unlike_commit"
    /\ IgnoredCommit(p, Success(200, "Tweet unliked successfully", "None"))
    /\ UNCHANGED <<nextTweet, okFollows, reqs>>
    /\ Track

unlike_tweet(p) ==
    \/ unlike_tweet_start(p)
    \/ unlike_tweet_delete(p)
    \/ unlike_tweet_update(p)
    \/ unlike_tweet_commit(p)

\* ------------------------------------------------------- tweet responses
\* One row of the join of tweets and users, as the query returns it.
TweetWithUser(d, t) ==
    [id |-> t, user_id |-> d.tweets[t].user_id,
     likes_count |-> d.tweets[t].likes_count,
     created_at |-> d.tweets[t].created_at]

TweetResponse(row, is_liked) ==
    [id |-> row.id, user_id |-> row.user_id, likes_count |-> row.likes_count,
     created_at |-> row.created_at, is_liked |-> is_liked]

\* ---------------------------------------------------------- create_tweet
ContentMin == 1
ContentMax == 280
ContentLens == {0, 1, 280, 281}

\* The validation without the upper bound.
ValidContentNonEmpty(len) == ContentMin <= len

\* #[validate(length(min = 1, max = 280))] on CreateTweetRequest.content
ValidContent(len) == ContentMin <= len /\ len <= ContentMax

\* validate(), token check, then INSERT INTO tweets .. RETURNING *.
create_tweet_insert(p) ==
    /\ CanStart(p)
    /\ reqs' = reqs - 1
    /\ \E caller \in Names, len \in ContentLens :
         LET r == Request("create", caller, NoUser, NoTweet, len)
         IN  \/ /\ ~ValidContent(len)
                /\ Reply(p, r, Failure(400, "Validation error"), NoHist)
                /\ UNCHANGED <<db, nextTweet, faults>>
             \/ /\ ValidContent(len) /\ caller = NoUser
                /\ Reply(p, r, Unauthorized, NoHist)
                /\ UNCHANGED <<db, nextTweet, faults>>
             \/ /\ ValidContent(len) /\ caller # NoUser /\ faults > 0
                /\ faults' = faults - 1
                /\ Reply(p, r, Failure(500, "Database error"),
                         [NoHist EXCEPT !.failed = TRUE])
                /\ UNCHANGED <<db, nextTweet>>
             \/ /\ ValidContent(len) /\ caller # NoUser /\ nextTweet <= MaxTweets
                /\ \E at \in {db.now, db.now + 1} :
                     db' = [db EXCEPT !.now = at,
                                      !.tweets =
                                        [t \in DOMAIN @ \cup {nextTweet} |->
                                           IF t = nextTweet
                                           THEN NewTweetRow(caller, at)
                                           ELSE @[t]]]
                /\ nextTweet' = nextTweet + 1
                /\ Goto(p, [r EXCEPT !.tweet_id = nextTweet], "create_fetch_user",
                        [NoHist EXCEPT !.feed = <<TweetWithUser(db', nextTweet)>>])
                /\ UNCHANGED <<faults, tx>>
    /\ UNCHANGED okFollows
    /\ Track

\* SELECT * FROM users WHERE id = $1 for the response body, which is built
\* from the row the INSERT returned.
create_tweet_fetch_user(p) ==
    /\ pc[p] = "create_fetch_user"
    /\ \/ /\ Reply(p, req[p],
                   Success(201, TweetResponse(h[p].feed[1], FALSE),
                           "Tweet created successfully"), h[p])
          /\ UNCHANGED faults
       \/ /\ faults > 0
          /\ faults' = faults - 1
          /\ Reply(p, req[p], Failure(500, "Failed to fetch user data"),
                   [h[p] EXCEPT !.failed = TRUE])
    /\ UNCHANGED <<db, nextTweet, okFollows, reqs>>
    /\ Track

create_tweet(p) ==
    \/ create_tweet_insert(p)
    \/ create_tweet_fetch_user(p)

\* ---------------------------------------------------------- delete_tweet
delete_tweet_start(p) ==
    /\ CanStart(p)
    /\ reqs' = reqs - 1
    /\ \E caller \in Names, t \in KnownTweets :
         LET r == Request("delete", caller, NoUser, t, 0)
         IN  /\ caller = NoUser => t = NoTweet
             /\ \/ /\ caller = NoUser
                   /\ Reply(p, r, Unauthorized, NoHist)
                \/ /\ caller # NoUser
                   /\ Goto(p, r, "delete_exec", NoHist)
                   /\ UNCHANGED tx
    /\ UNCHANGED <<db, nextTweet, okFollows, faults>>
    /\ Track

\* The likes table after a DELETE of tweet t from tweets: the schema declares
\* no reference from likes.tweet_id to tweets, so the DELETE leaves the likes
\* table alone (and an INSERT into likes is not checked against tweets).
LikesAfterDelete(d, t) == d.likes

\* What the tweets table holds under the id when the DELETE runs.
TweetSeen(d, t, u) ==
    IF t \notin DOMAIN d.tweets THEN "absent"
    ELSE IF d.tweets[t].user_id = u THEN "mine" ELSE "other"

\* DELETE FROM tweets WHERE id = $1 AND user_id = $2, in autocommit.
delete_tweet_exec(p) ==
    /\ pc[p] = "delete_exec"
    /\ LET t == req[p].tweet_id
           mine == OwnedBy(db, t, req[p].user_id)
           hist == [h[p] EXCEPT !.saw = TweetSeen(db, t, req[p].user_id)]
       IN  \/ /\ faults > 0
              /\ faults' = faults - 1
              /\ Reply(p, req[p], Failure(500, "Database error"),
                       [hist EXCEPT !.failed = TRUE])
              /\ UNCHANGED db
           \/ /\ ~mine                                     \* rows_affected = 0
              /\ Reply(p, req[p], Failure(404, "Tweet not found or unauthorized"), hist)
              /\ UNCHANGED <<db, faults>>
           \/ /\ mine /\ ~Blocked(p)
              /\ db' = [db EXCEPT !.tweets = [x \in DOMAIN @ \ {t} |-> @[x]],
                                   !.likes = LikesAfterDelete(db, t)]
              /\ Reply(p, req[p], Success(200, "Tweet deleted successfully", "None"), hist)
              /\ UNCHANGED faults
    /\ UNCHANGED <<nextTweet, okFollows, reqs>>
    /\ Track

delete_tweet(p) ==
    \/ delete_tweet_start(p)
    \/ delete_tweet_exec(p)

\* ------------------------------------------- get_timeline, get_user_tweets
TimelineLimit == 50

\* The largest store holds FeedExtra tweets more than a timeline.
FeedExtra == 2

\* The subquery with the two columns of follows swapped.
FollowersInstead(d, u) == {e[1] : e \in {k \in BagToSet(d.follows) : k[2] = u}}

\* SELECT following_id FROM follows WHERE follower_id = $1
Following(d, u) == {e[2] : e \in {k \in BagToSet(d.follows) : k[1] = u}}

\* The subquery without `UNION SELECT $1`.
FollowedOnly(d, u) == Following(d, u)

\* .. UNION SELECT $1: the owners whose tweets the timeline shows.
TimelineOwners(d, u) == Following(d, u) \cup {u}

\* ORDER BY t.created_at DESC names no second key: the order of rows with
\* equal created_at is whatever the store's plan yields.  Two of the orders
\* it can yield: by id, ascending or descending.
TieOrders == {"asc", "desc"}

\* Row a comes before row b in the result.
Before(d, a, b, tie) ==
    \/ d.tweets[a].created_at > d.tweets[b].created_at
    \/ /\ d.tweets[a].created_at = d.tweets[b].created_at
       /\ IF tie = "asc" THEN a < b ELSE a > b

\* The ids a tweet can have, in a sequence.
TweetIds ==
    [i \in 1..(IF MaxTweets > TimelineLimit + FeedExtra
                THEN MaxTweets ELSE TimelineLimit + FeedExtra) |-> i]

\* The rows of S in the order of the ORDER BY.
OrderBy(d, S, tie) ==
    SortSeq(SelectSeq(TweetIds, LAMBDA t : t \in S),
            LAMBDA a, b : Before(d, a, b, tie))

\* LIMIT n
Limit(rows, n) == IF Len(rows) <= n THEN rows ELSE SubSeq(rows, 1, n)

\* The feed query of get_timeline.
TimelineQuery(d, u, tie) ==
    LET ids == Limit(OrderBy(d, {t \in DOMAIN d.tweets :
                                    d.tweets[t].user_id \in TimelineOwners(d, u)}, tie),
                     TimelineLimit)
    IN  [i \in 1..Len(ids) |-> TweetWithUser(d, ids[i])]

\* The query of get_user_tweets: .. WHERE u.username = $1 ORDER BY
\* t.created_at DESC, without a limit.
UserTweetsQuery(d, name, tie) ==
    LET ids == OrderBy(d, {t \in DOMAIN d.tweets :
                              /\ UserByUsername(name) # NoUser
                              /\ d.tweets[t].user_id = UserByUsername(name)}, tie)
    IN  [i \in 1..Len(ids) |-> TweetWithUser(d, ids[i])]

\* Token check, then the feed query on the pool.
get_timeline_query(p) ==
    /\ CanStart(p)
    /\ reqs' = reqs - 1
    /\ \E caller \in Names :
         LET r == Request("timeline", caller, NoUser, NoTweet, 0)
         IN  \/ /\ caller = NoUser
                /\ Reply(p, r, Unauthorized, NoHist)
                /\ UNCHANGED faults
             \/ /\ caller # NoUser /\ faults > 0
                /\ faults' = faults - 1
                /\ Reply(p, r, Failure(500, "Database error"), NoHist)
             \/ /\ caller # NoUser
                /\ \E tie \in TieOrders :
                     LET rows == TimelineQuery(db, caller, tie)
                     IN  IF Len(rows) = 0
                         THEN Reply(p, r, Success(200, <<>>, "None"), NoHist)
                         ELSE /\ Goto(p, r, "timeline_liked", [NoHist EXCEPT !.feed = rows])
                              /\ UNCHANGED tx
                /\ UNCHANGED faults
    /\ UNCHANGED <<db, nextTweet, okFollows>>
    /\ Track

\* A failed lookup taken for a like.
UnwrapOrTrue(result) == result # "false"

\* `.unwrap_or(false)` on the result of the lookup.
UnwrapOrFalse(result) == result = "true"

\* The likes_count of tweet t in the committed state d, -1 if t is not stored.
CountSeen(d, t) == IF t \in DOMAIN d.tweets THEN d.tweets[t].likes_count ELSE -1

\* One turn of the loop over the rows: SELECT EXISTS(.. FROM likes ..) for
\* the caller and the tweet, then the TweetResponse is pushed; after the
\* last row the handler returns the list.
get_timeline_liked(p) ==
    /\ pc[p] = "timeline_liked"
    /\ LET tweet == h[p].feed[Len(h[p].out) + 1]
           found == IF <<req[p].user_id, tweet.id>> \in db.likes THEN "true" ELSE "false"
       IN  \E result \in {found, "error"} :
             /\ result = "error" => faults > 0
             /\ faults' = IF result = "error" THEN faults - 1 ELSE faults
             /\ LET out == Append(h[p].out, TweetResponse(tweet, UnwrapOrFalse(result)))
                    hist == [h[p] EXCEPT !.out = out,
                                         !.lookupErr = @ \/ result = "error",
                                         !.seen = Append(@, CountSeen(db, tweet.id))]
                IN  IF Len(out) = Len(h[p].feed)
                    THEN Reply(p, req[p], Success(200, out, "None"), hist)
                    ELSE /\ Goto(p, req[p], "timeline_liked", hist)
                         /\ UNCHANGED tx
    /\ UNCHANGED <<db, nextTweet, okFollows, reqs>>
    /\ Track

get_timeline(p) ==
    \/ get_timeline_query(p)
    \/ get_timeline_liked(p)

\* The response built with the like state of the tweet's counter.
UserTweetResponseByLikes(row) == TweetResponse(row, row.likes_count > 0)

\* `is_liked: false`
UserTweetResponse(row) == TweetResponse(row, FALSE)

\* The one query of the handler and the mapping of its rows; no token.
get_user_tweets(p) ==
    /\ CanStart(p)
    /\ reqs' = reqs - 1
    /\ \E name \in Names :
         LET r == Request("user_tweets", NoUser, name, NoTweet, 0)
         IN  \/ /\ faults > 0
                /\ faults' = faults - 1
                /\ Reply(p, r, Failure(500, "Database error"), NoHist)
             \/ /\ \E tie \in TieOrders :
                     LET rows == UserTweetsQuery(db, name, tie)
                     IN  Reply(p, r,
                               Success(200, [i \in 1..Len(rows) |-> UserTweetResponse(rows[i])],
                                       "None"),
                               [NoHist EXCEPT !.feed = rows])
                /\ UNCHANGED faults
    /\ UNCHANGED <<db, nextTweet, okFollows>>
    /\ Track

\* ----------------------------------------------------------------- register
UsernameMin == 3
UsernameMax == 30

\* The lengths of usernames around the lower bound; the email, the password
\* and the display name of a request are well-formed.
UsernameLens == {UsernameMin - 1, UsernameMin}

\* #[validate(length(min = 3, max = 30))] on RegisterRequest.username
ValidUsername(len) == UsernameMin <= len /\ len <= UsernameMax

\* The usernames and emails requests ask for: those of user 1, and two that
\* nobody has at first.
FreshNames == (Stranger + 1) .. (Stranger + 2)
RegNames == {1} \cup FreshNames

Usernames(d) == {d.users[u].username : u \in DOMAIN d.users}
Emails(d) == {d.users[u].email : u \in DOMAIN d.users}

\* SELECT * FROM users WHERE email = $1 OR username = $2 finds a row.
UserExists(d, email, username) ==
    \E u \in DOMAIN d.users :
        d.users[u].email = email \/ d.users[u].username = username

\* The id the store gives the new row (a fresh uuid).
NewUserId(d) ==
    LET ids == DOMAIN d.users \cup {Stranger}
    IN  (CHOOSE m \in ids : \A i \in ids : i <= m) + 1

\* impl From<User> for UserResponse: everything but the password hash.
UserResponse(id, row) ==
    [id |-> id, username |-> row.username, email |-> row.email,
     display_name |-> row.display_name,
     bio |-> row.bio, profile_image |-> row.profile_image,
     banner_image |-> row.banner_image, followers_count |-> row.followers_count,
     following_count |-> row.following_count, verified |-> row.verified]

AuthResponse(user) == [token |-> "jwt", user |-> user]

\* bcrypt: the hash of a password, and whether a password has the hash.
HashPassword(password) == <<"bcrypt", password>>
VerifyPassword(password, hash) == hash = HashPassword(password)

\* validate(), then the lookup of a user with the email or the username.  A
\* lookup that fails is not `Ok(Some(_))`: the handler goes on to the INSERT.
register_check(p) ==
    /\ CanStart(p)
    /\ reqs' = reqs - 1
    /\ \E username \in RegNames, email \in RegNames, len \in UsernameLens :
         LET r == [Request("register", NoUser, username, NoTweet, len)
                     EXCEPT !.email = email, !.password = "secret"]
             saw == IF UserExists(db, email, username) THEN "present" ELSE "absent"
             hist == [NoHist EXCEPT !.saw = saw]
         IN  \/ /\ ~ValidUsername(len)
                /\ username = email
                /\ Reply(p, r, Failure(400, "Validation error"), NoHist)
                /\ UNCHANGED faults
             \/ /\ ValidUsername(len) /\ faults > 0
                /\ faults' = faults - 1
                /\ Goto(p, r, "register_insert", [hist EXCEPT !.checkErr = TRUE])
                /\ UNCHANGED tx
             \/ /\ ValidUsername(len) /\ saw = "present"
                /\ Reply(p, r, Failure(400, "User with this email or username already exists"),
                         hist)
                /\ UNCHANGED faults
             \/ /\ ValidUsername(len) /\ saw = "absent"
                /\ Goto(p, r, "register_insert", hist)
                /\ UNCHANGED <<faults, tx>>
    /\ UNCHANGED <<db, nextTweet, okFollows>>
    /\ Track

\* hash_password, then INSERT INTO users .. RETURNING * on the pool, then
\* create_jwt.  (Hashing and signing do not fail on well-formed input.)
register_insert(p) ==
    /\ pc[p] = "register_insert"
    /\ LET r == req[p]
           id == NewUserId(db)
           row == NewUserRow(r.username, r.email, HashPassword(r.password), "name")
       IN  \/ /\ faults > 0
              /\ faults' = faults - 1
              /\ Reply(p, r, Failure(500, "Database error"), [h[p] EXCEPT !.failed = TRUE])
              /\ UNCHANGED db
           \/ /\ \/ ViolatesUnique(Usernames(db), r.username)
                 \/ ViolatesUnique(Emails(db), r.email)
              /\ Reply(p, r, Failure(500, "Database error"), [h[p] EXCEPT !.uniq = TRUE])
              /\ UNCHANGED <<db, faults>>
           \/ /\ ~ViolatesUnique(Usernames(db), r.username)
              /\ ~ViolatesUnique(Emails(db), r.email)
              /\ db' = [db EXCEPT !.users =
                          [u \in DOMAIN @ \cup {id} |-> IF u = id THEN row ELSE @[u]]]
              /\ Reply(p, [r EXCEPT !.user_id = id],
                       Success(201, AuthResponse(UserResponse(id, row)),
                               "User registered successfully"),
                       [h[p] EXCEPT !.committed = TRUE])
              /\ UNCHANGED faults
    /\ UNCHANGED <<nextTweet, okFollows, reqs>>
    /\ Track

register(p) ==
    \/ register_check(p)
    \/ register_insert(p)

\* -------------------------------------------------------------------- login
\* The password of every user, and another one.
Passwords == {"secret", "wrong"}

\* A text that is not an email address.
Malformed == Stranger + 3

\* #[validate(email)] on LoginRequest.email
ValidEmail(email) == email # Malformed

\* SELECT * FROM users WHERE email = $1
UserByEmail(d, email) ==
    IF \E u \in DOMAIN d.users : d.users[u].email = email
    THEN CHOOSE u \in DOMAIN d.users : d.users[u].email = email
    ELSE NoUser

\* validate(), the lookup by email, verify_password, create_jwt.  A lookup
\* that fails or finds nobody and a password that does not match get the
\* same answer.
login(p) ==
    /\ CanStart(p)
    /\ reqs' = reqs - 1
    /\ \E email \in RegNames \cup {Malformed}, password \in Passwords :
         LET r == [Request("login", NoUser, NoUser, NoTweet, 0)
                     EXCEPT !.email = email, !.password = password]
             u == UserByEmail(db, email)
         IN  \/ /\ ~ValidEmail(email)
                /\ Reply(p, r, Failure(400, "Validation error"), NoHist)
                /\ UNCHANGED faults
             \/ /\ ValidEmail(email) /\ faults > 0
                /\ faults' = faults - 1
                /\ Reply(p, r, Failure(401, "Invalid credentials"),
                         [NoHist EXCEPT !.failed = TRUE])
             \/ /\ ValidEmail(email)
                /\ IF u # NoUser /\ VerifyPassword(password, db.users[u].password_hash)
                   THEN Reply(p, [r EXCEPT !.user_id = u],
                              Success(200, AuthResponse(UserResponse(u, db.users[u])),
                                      "Login successful"), NoHist)
                   ELSE Reply(p, r, Failure(401, "Invalid credentials"), NoHist)
                /\ UNCHANGED faults
    /\ UNCHANGED <<db, nextTweet, okFollows>>
    /\ Track

\* ------------------------------------ get_me, get_user_by_username, health
\* Token check, then SELECT * FROM users WHERE id = $1; a lookup that fails
\* is answered like one that finds nobody.
get_me(p) ==
    /\ CanStart(p)
    /\ reqs' = reqs - 1
    /\ \E caller \in Names \cup {Stranger} :
         LET r == Request("me", caller, NoUser, NoTweet, 0)
         IN  \/ /\ caller = NoUser
                /\ Reply(p, r, Unauthorized, NoHist)
                /\ UNCHANGED faults
             \/ /\ caller # NoUser /\ faults > 0
                /\ faults' = faults - 1
                /\ Reply(p, r, Failure(404, "User not found"),
                         [NoHist EXCEPT !.failed = TRUE])
             \/ /\ caller # NoUser
                /\ IF caller \in DOMAIN db.users
                   THEN Reply(p, r, Success(200, UserResponse(caller, db.users[caller]), "None"),
                              NoHist)
                   ELSE Reply(p, r, Failure(404, "User not found"), NoHist)
                /\ UNCHANGED faults
    /\ UNCHANGED <<db, nextTweet, okFollows>>
    /\ Track

\* SELECT * FROM users WHERE username = $1, the row in the store
UserIdByUsername(d, name) ==
    IF \E u \in DOMAIN d.users : d.users[u].username = name
    THEN CHOOSE u \in DOMAIN d.users : d.users[u].username = name
    ELSE NoUser

get_user_by_username(p) ==
    /\ CanStart(p)
    /\ reqs' = reqs - 1
    /\ \E name \in RegNames :
         LET r == Request("user", NoUser, name, NoTweet, 0)
             u == UserIdByUsername(db, name)
         IN  \/ /\ faults > 0
                /\ faults' = faults - 1
                /\ Reply(p, r, Failure(500, "Database error"),
                         [NoHist EXCEPT !.failed = TRUE])
             \/ /\ IF u # NoUser
                   THEN Reply(p, [r EXCEPT !.target = u],
                              Success(200, UserResponse(u, db.users[u]), "None"), NoHist)
                   ELSE Reply(p, r, Failure(404, "User not found"), NoHist)
                /\ UNCHANGED faults
    /\ UNCHANGED <<db, nextTweet, okFollows>>
    /\ Track

health_check(p) ==
    /\ CanStart(p)
    /\ reqs' = reqs - 1
    /\ Reply(p, Request("health", NoUser, NoUser, NoTweet, 0),
             Success(200, "Twitter API is running with PostgreSQL", "None"), NoHist)
    /\ UNCHANGED <<db, nextTweet, okFollows, faults>>
    /\ Track

\* ----------------------------------------------------------- update_profile
\* The values a request may carry in a field: none, or a new text.
ProfileValues == {None, Some("new")}

ProfileFields == {"display_name", "bio", "profile_image", "banner_image"}

\* The column set to what the request carries, absent or not.
Overwrite(new, old) == new

\* COALESCE($1, display_name): the first of the two that is not NULL.
Coalesce(new, old) == IF new # None THEN new ELSE old

\* UPDATE users SET display_name = COALESCE($1, display_name), bio = .. ,
\* profile_image = .., banner_image = .. WHERE id = $5
UpdatedUserRow(row, body) ==
    [row EXCEPT !.display_name = Coalesce(body.display_name, @),
                !.bio = Coalesce(body.bio, @),
                !.profile_image = Coalesce(body.profile_image, @),
                !.banner_image = Coalesce(body.banner_image, @)]

\* Token check, then the one UPDATE .. RETURNING * with fetch_one on the
\* pool: a statement that returns no row is an error (RowNotFound) to
\* fetch_one, as is a failure of the store.
update_profile(p) ==
    /\ CanStart(p)
    /\ reqs' = reqs - 1
    /\ \E caller \in Names \cup {Stranger},
          dn \in ProfileValues, bio \in ProfileValues,
          pi \in ProfileValues, bi \in ProfileValues :
         LET body == UpdateProfileRequest(dn, bio, pi, bi)
             r == [Request("update_profile", caller, NoUser, NoTweet, 0)
                     EXCEPT !.body = body]
             saw == IF caller \in DOMAIN db.users THEN "present" ELSE "absent"
             hist == [NoHist EXCEPT !.saw = saw]
         IN  /\ caller = NoUser => body = NoBody
             /\ \/ /\ caller = NoUser
                   /\ Reply(p, r, Unauthorized, NoHist)
                   /\ UNCHANGED <<db, faults>>
                \/ /\ caller # NoUser /\ faults > 0
                   /\ faults' = faults - 1
                   /\ Reply(p, r, Failure(500, "Database error"),
                            [hist EXCEPT !.failed = TRUE])
                   /\ UNCHANGED db
                \/ /\ caller # NoUser /\ saw = "absent"
                   /\ Reply(p, r, Failure(500, "Database error"), hist)
                   /\ UNCHANGED <<db, faults>>
                \/ /\ caller # NoUser /\ saw = "present"
                   /\ ~HeldByOther(p, <<"users", UserRow(caller)>>)
                   /\ db' = [db EXCEPT !.users[caller] = UpdatedUserRow(@, body)]
                   /\ Reply(p, r,
                            Success(200, UserResponse(caller, db'.users[caller]),
                                    "Profile updated successfully"),
                            [hist EXCEPT !.committed = TRUE])
                   /\ UNCHANGED faults
    /\ UNCHANGED <<nextTweet, okFollows>>
    /\ Track

\* ------------------------------------------------------------ the system
InitTweets == [t \in {1} |-> NewTweetRow(1, 1)]

\* User u registered with the username u and the email u.
InitUsers ==
    [u \in Users \cup {Bystander} |-> NewUserRow(u, u, HashPassword("secret"), "name")]

InitDb ==
    [follows |-> EmptyBag, likes |-> {}, users |-> InitUsers,
     tweets |-> InitTweets, now |-> 1]

NoUndo == Undo("off", "none", <<0, 0>>, InitDb)

InitStore(f, n, u) ==
    /\ db = InitDb
    /\ nextTweet = 2
    /\ pc = [p \in Procs |-> "idle"]
    /\ req = [p \in Procs |-> NoReq]
    /\ last = NoLast
    /\ tx = [p \in Procs |-> NoTx]
    /\ h = [p \in Procs |-> NoHist]
    /\ okFollows = [k \in Users \X Users |-> 0]
    /\ reqs = n
    /\ faults = f
    /\ undo = u

InitWith(f) == InitStore(f, MaxReqs, NoUndo)

\* Two registered users and one tweet; up to MaxFaults statements fail for
\* reasons of the store's own (a lost connection, a timeout).
Init == InitWith(MaxFaults)

Next ==
    \E p \in Procs :
        \/ follow_user(p)
        \/ unfollow_user(p)
        \/ like_tweet(p)
        \/ unlike_tweet(p)
        \/ create_tweet(p)
        \/ delete_tweet(p)

Spec == Init /\ [][Next]_vars

\* The same system with a store in which no statement fails but the victims
\* of its deadlock detector.
NoFaultSpec == InitWith(0) /\ [][Next]_vars

\* The steps of a request in progress: everything but taking a new request.
Step(p) ==
    \/ follow_user_insert(p) \/ follow_user_upd1(p)
    \/ follow_user_upd2(p) \/ follow_user_commit(p)
    \/ unfollow_user_delete(p) \/ unfollow_user_upd1(p)
    \/ unfollow_user_upd2(p) \/ unfollow_user_commit(p)
    \/ like_tweet_insert(p) \/ like_tweet_update(p) \/ like_tweet_commit(p)
    \/ unlike_tweet_delete(p) \/ unlike_tweet_update(p) \/ unlike_tweet_commit(p)
    \/ create_tweet_fetch_user(p)
    \/ delete_tweet_exec(p)

\* The executor polls every handler that can make progress, and the store
\* answers every statement that is not waiting for a lock; a statement that
\* waits in a deadlock is answered with an error by the deadlock detector.
LiveSpec == Spec /\ \A p \in Procs : WF_vars(Step(p))

\* ------------------------------------------------- the read handlers
\* The read handlers on a store that earlier requests have filled: from no
\* tweet to FeedExtra tweets more than a timeline holds.
FeedSizes == {0, 1, 3} \cup (TimelineLimit .. (TimelineLimit + FeedExtra))

\* Who wrote tweet i: the users in turn, or one user all of them but the
\* first, which the next user wrote.
OwnerPatterns == Users \cup {NoUser}
OwnerOf(pat, i) ==
    IF pat = NoUser THEN (i % NumUsers) + 1
    ELSE IF i = 1 THEN (pat % NumUsers) + 1 ELSE pat

\* When tweet i of n was written: ids in the order of the clock or against
\* it (ids are random), all in one tick of the clock, or two in each tick.
ClockPatterns == {"rising", "falling", "same", "pairs"}
CreatedAt(pat, i, n) ==
    CASE pat = "rising" -> i
      [] pat = "falling" -> n + 1 - i
      [] pat = "same" -> 1
      [] pat = "pairs" -> (i + 1) \div 2

FollowPatterns == {{}, {<<1, 2>>}, {<<2, 1>>}, {<<1, 2>>, <<2, 1>>}}

\* Who likes what: nobody; user 1 every tweet; user 2 every tweet; user 1
\* the odd tweets and user 2 every tweet.
LikePatterns == {"none", "first", "second", "mixed"}
LikedBy(pat, n) ==
    CASE pat = "none" -> {}
      [] pat = "first" -> {1} \X (1..n)
      [] pat = "second" -> {2} \X (1..n)
      [] pat = "mixed" -> {<<1, t>> : t \in {i \in 1..n : i % 2 = 1}} \cup ({2} \X (1..n))

\* The store after the requests that made these tweets, edges and likes:
\* every counter counts its edges.
FeedStore(n, owners, clock, follows, likes) ==
    [follows |-> SetToBag(follows),
     likes |-> LikedBy(likes, n),
     users |-> [u \in DOMAIN InitUsers |->
                  [InitUsers[u] EXCEPT
                     !.followers_count = Cardinality({e \in follows : e[2] = u}),
                     !.following_count = Cardinality({e \in follows : e[1] = u})]],
     tweets |-> [t \in 1..n |->
                   [NewTweetRow(OwnerOf(owners, t), CreatedAt(clock, t, n)) EXCEPT
                      !.likes_count = Cardinality({l \in LikedBy(likes, n) : l[2] = t})]],
     now |-> n + 1]

\* Storage faults are injected into the reads of the small stores.
FeedInit ==
    /\ \E n \in FeedSizes, owners \in OwnerPatterns, clock \in ClockPatterns,
          follows \in FollowPatterns, likes \in LikePatterns :
          /\ db = FeedStore(n, owners, clock, follows, likes)
          /\ nextTweet = n + 1
          /\ faults = IF n < TimelineLimit THEN MaxFaults ELSE 0
    /\ pc = [p \in Procs |-> "idle"]
    /\ req = [p \in Procs |-> NoReq]
    /\ last = NoLast
    /\ tx = [p \in Procs |-> NoTx]
    /\ h = [p \in Procs |-> NoHist]
    /\ okFollows = [k \in Users \X Users |-> 0]
    /\ reqs = 1
    /\ undo = NoUndo

FeedNext == \E p \in Procs : get_timeline(p) \/ get_user_tweets(p)

FeedSpec == FeedInit /\ [][FeedNext]_vars

\* ------------------------------------------------------ the account handlers
\* register and update_profile on the store of Init.
AccountNext == \E p \in Procs : register(p) \/ update_profile(p)

AccountSpec == Init /\ [][AccountNext]_vars

\* ------------------------------------------------------- the whole service
\* Every handler of the service, ServiceReqs requests.
ServiceReqs == 2

ServiceInit == InitStore(MaxFaults, ServiceReqs, NoUndo)

ServiceNext ==
    \E p \in Procs :
        \/ health_check(p)
        \/ register(p)
        \/ login(p)
        \/ get_me(p)
        \/ get_user_by_username(p)
        \/ update_profile(p)
        \/ follow_user(p)
        \/ unfollow_user(p)
        \/ like_tweet(p)
        \/ unlike_tweet(p)
        \/ create_tweet(p)
        \/ delete_tweet(p)
        \/ get_timeline(p)
        \/ get_user_tweets(p)

ServiceSpec == ServiceInit /\ [][ServiceNext]_vars

\* --------------------------------------------- a mutation, then its inverse
\* The system of Spec with `undo` following the pairs of a mutation and its
\* inverse.
UndoInit == InitStore(MaxFaults, MaxReqs, Undo("none", "none", <<0, 0>>, InitDb))

UndoSpec == UndoInit /\ [][Next]_vars

\* ---------------------------------------------------------------- claims
\* No transaction is in flight.
Quiescent == \A p \in Procs : ~tx[p].active

FollowersOf(u) == {e \in BagToSet(db.follows) : e[2] = u}
FollowingOf(u) == {e \in BagToSet(db.follows) : e[1] = u}
LikesOf(t) == {l \in db.likes : l[2] = t}

FollowCountersMatch ==
    \A u \in Users :
        /\ db.users[u].followers_count = Cardinality(FollowersOf(u))
        /\ db.users[u].following_count = Cardinality(FollowingOf(u))

LikeCountersMatch ==
    \A t \in DOMAIN db.tweets : db.tweets[t].likes_count = Cardinality(LikesOf(t))

\* C1: at every quiescent point every user's followers_count is the number
\* of Follow edges that point at the user and following_count the number of
\* Follow edges that leave the user.
C1_FollowCountersAtQuiescence == Quiescent => FollowCountersMatch

\* C1 witness: quiescent, after a follow of each direction and the unfollow
\* of one of them, with the remaining edge counted.
C1_Witness ==
    /\ Quiescent
    /\ BagToSet(db.follows) = {<<1, 2>>}
    /\ db.users[2].followers_count = 1
    /\ last.req.op = "unfollow" /\ last.resp.success /\ last.h.committed

\* C2: at every quiescent point every existing tweet's likes_count is the
\* number of Like edges on it.
C2_LikeCountersAtQuiescence == Quiescent => LikeCountersMatch

\* C2 witness: quiescent, a tweet liked by both users, after the second like.
C2_Witness ==
    /\ Quiescent
    /\ 1 \in DOMAIN db.tweets
    /\ db.tweets[1].likes_count = 2
    /\ last.req.op = "like" /\ last.resp.success

FollowTags == {"edge", "following_count", "followers_count"}
LikeTags == {"edge", "likes_count"}

\* C3: the edge insert and the two counter increments of a follow are one
\* atomic unit: none of the three writes of a follow in progress is part of
\* the committed state, a follow that has returned has all three of them or
\* none of them in it, and so the committed state that any request reads has
\* the counters matching the edges at every moment.
C3_FollowAtomic ==
    /\ \A p \in Procs : req[p].op = "follow" => h[p].vis = {}
    /\ last.req.op = "follow" => last.h.vis \in {{}, FollowTags}
    /\ FollowCountersMatch

\* C3 witness: a follow has inserted its edge and incremented one counter in
\* its transaction while another request is about to read the same edge.
C3_Witness ==
    \E p, q \in Procs :
        /\ pc[p] = "follow_upd2" /\ Len(tx[p].writes) = 2
        /\ pc[q] = "unfollow_delete" /\ FollowKey(req[q]) = FollowKey(req[p])

\* C4: of the follow requests for one ordered pair, in sequence or
\* concurrent, with no unfollow of the pair in between, exactly one succeeds
\* and every other one returns the "already following" conflict without
\* side effects.
C4_ExactlyOneFollowSucceeds ==
    /\ \A k \in Users \X Users : okFollows[k] <= 1
    /\ (last.req.op = "follow" /\ last.h.saw = "present") =>
          /\ last.resp = Failure(400, "Already following this user")
          /\ last.h.vis = {}

\* C5: a like of a pair that is liked already (the pre-check finds the edge)
\* returns the "already liked" conflict and writes nothing, so the counter
\* keeps the single increment of the first like.
C5_SecondLikeConflicts ==
    (last.req.op = "like" /\ last.h.saw = "present" /\ ~last.h.checkErr) =>
        /\ last.resp = Failure(400, "Already liked this tweet")
        /\ last.h.vis = {}
        /\ last.h.rows = -1

\* C5 witness: the second like of a pair is answered while the tweet counts
\* the first one.
C5_Witness ==
    /\ last.req.op = "like" /\ last.h.saw = "present" /\ ~last.h.checkErr
    /\ last.resp.status = 400
    /\ Quiescent
    /\ last.req.tweet_id \in DOMAIN db.tweets
    /\ db.tweets[last.req.tweet_id].likes_count = 1

\* C6: a like that passed the existence pre-check and whose INSERT then
\* violates the uniqueness constraint applies no counter increment and is
\* answered with the 400-class conflict, not with a storage error.
C6_ConcurrentLikeConflicts ==
    (/\ last.req.op = "like"
     /\ last.h.saw = "absent" /\ ~last.h.checkErr
     /\ last.h.uniq) =>
        /\ last.resp.status = 400
        /\ last.h.vis = {}

Mutations == {"like", "unlike", "follow", "unfollow"}

\* C7: a mutation whose transaction met a storage failure (a failed
\* statement other than a uniqueness violation, a deadlock abort, a failed
\* commit) has nothing committed and answers with the 500-class error.
C7_StorageFailureIs500 ==
    (last.req.op \in Mutations /\ last.h.failed) =>
        /\ last.resp.status = 500
        /\ ~last.resp.success
        /\ last.h.vis = {}

AllTags(op) == IF op \in {"follow", "unfollow"} THEN FollowTags ELSE LikeTags

\* C8: a mutation that answers success has committed its edge change and
\* every counter change.
C8_SuccessMeansCommitted ==
    (last.req.op \in Mutations /\ last.resp.success) =>
        /\ last.h.committed
        /\ last.h.vis = AllTags(last.req.op)

\* C9: every request in progress eventually returns its response, also
\* when two follows or unfollows lock the same two user rows in opposite
\* order; the transaction the store aborts to break the deadlock leaves
\* none of its writes in the committed state.
C9_EveryRequestReturns ==
    /\ \A p \in Procs : (pc[p] # "idle") ~> (pc[p] = "idle")
    /\ [](last.h.victim => (last.h.vis = {} /\ ~last.h.committed))

\* C9 witness: a follow or unfollow that was a deadlock victim has returned.
C9_Witness ==
    /\ last.req.op \in {"follow", "unfollow"}
    /\ last.h.victim

\* C10: the state of a (user, tweet) pair changes only in the step in which
\* a like or unlike of that pair answers success: a successful like moves it
\* from not-liked to liked, a successful unlike from liked to not-liked, and
\* a failed like or unlike leaves it as it was.
LikePairStep ==
    /\ \A k \in db.likes \cup db.likes' :
          (k \in db.likes) # (k \in db.likes') =>
              /\ last'.resp.success
              /\ LikeKey(last'.req) = k
              /\ last'.req.op = (IF k \in db.likes' THEN "like" ELSE "unlike")
    /\ (last'.req.op = "like" /\ last'.resp.success) =>
          (LikeKey(last'.req) \notin db.likes /\ LikeKey(last'.req) \in db.likes')
    /\ (last'.req.op = "unlike" /\ last'.resp.success) =>
          (LikeKey(last'.req) \in db.likes /\ LikeKey(last'.req) \notin db.likes')

C10_LikeStateMachine == [][LikePairStep]_vars

\* The writes a transaction has made and not yet committed.
Pending(p) == {tx[p].writes[i] : i \in 1..Len(tx[p].writes)}

\* C11: an unlike of a pair with no Like edge returns the "Like not found"
\* NotFoundError with nothing written or committed, and no two transactions
\* ever hold the delete of the same Like edge (of two concurrent unlikes of
\* a liked pair only one deletes and decrements).
C11_UnlikeWithoutEdge ==
    /\ (last.req.op = "unlike" /\ last.h.saw = "absent") =>
          /\ last.resp = Failure(404, "Like not found")
          /\ last.h.vis = {}
          /\ ~last.h.committed
    /\ \A p, q \in Procs :
          (p # q /\ req[p].op = "unlike" /\ req[q].op = "unlike") =>
              ~(\E w \in Pending(p) : w.kind = "del" /\ w \in Pending(q))

\* C11 witness: an unlike by a user who has not liked the tweet has returned
\* while the like of the other user is still stored and counted.
C11_Witness ==
    /\ last.req.op = "unlike" /\ last.h.saw = "absent"
    /\ last.resp.status = 404
    /\ last.req.tweet_id \in DOMAIN db.tweets
    /\ db.tweets[last.req.tweet_id].likes_count = 1
    /\ \E u \in Users \ {last.req.user_id} : <<u, last.req.tweet_id>> \in db.likes

\* C12: an unfollow that finds no edge returns the "not following"
\* NotFoundError and changes nothing; an unfollow that finds the edge
\* deletes it and decrements both counters, all of it committed.
C12_UnfollowContract ==
    /\ (last.req.op = "unfollow" /\ last.h.saw = "absent") =>
          /\ last.resp = Failure(404, "Not following this user")
          /\ last.h.vis = {}
    /\ (last.req.op = "unfollow" /\ last.h.saw = "present") =>
          /\ last.resp.success
          /\ last.h.committed
          /\ last.h.vis = FollowTags

\* C13: a follow whose target resolves to the caller returns the 400
\* "Cannot follow yourself" error before any statement of a transaction:
\* nothing is written, nothing committed.
C13_SelfFollowRejected ==
    (/\ last.req.op = "follow"
     /\ last.req.user_id # NoUser
     /\ last.req.target = last.req.user_id) =>
        /\ last.resp = Failure(400, "Cannot follow yourself")
        /\ last.h.vis = {}
        /\ last.h.rows = -1
        /\ ~last.h.failed

\* C13 witness: a self-follow has been rejected while the caller's real
\* follow is stored with its counters.
C13_Witness ==
    /\ last.req.op = "follow"
    /\ last.req.user_id = 1 /\ last.req.target = 1
    /\ last.resp.status = 400
    /\ BagToSet(db.follows) = {<<1, 2>>}
    /\ db.users[1].following_count = 1
    /\ db.users[1].followers_count = 0

\* C14: the follows table never holds a row with follower_id = following_id
\* and never two rows of one ordered pair.
C14_FollowTableInvariants ==
    \A k \in BagToSet(db.follows) :
        /\ k[1] # k[2]
        /\ CopiesIn(k, db.follows) = 1

\* C14 witness: a second follow of a stored pair has returned and the table
\* holds the pair once.
C14_Witness ==
    /\ last.req.op = "follow" /\ last.h.saw = "present"
    /\ CopiesIn(FollowKey(last.req), db.follows) = 1

CountersNonNegative ==
    /\ \A u \in Users :
          db.users[u].followers_count >= 0 /\ db.users[u].following_count >= 0
    /\ \A t \in DOMAIN db.tweets : db.tweets[t].likes_count >= 0

\* C15 as claimed: no counter is ever negative, and the decrements that
\* unfollow and unlike issue saturate at zero (applied to a counter of zero
\* they leave zero).
C15_DecrementsSaturate ==
    /\ CountersNonNegative
    /\ \A p \in Procs : \A w \in Pending(p) :
          (w.kind = "upd" /\ w.d < 0) => CounterAfter(0, w) = 0

\* C15 as amended: no counter is ever negative, because a decrement is only
\* ever issued in a transaction whose DELETE removed the edge that the
\* counter counted.
C15_CountersNeverNegative ==
    /\ CountersNonNegative
    /\ \A p \in Procs : \A w \in Pending(p) :
          (w.kind = "upd" /\ w.d < 0) =>
              /\ h[p].rows > 0
              /\ tx[p].writes[1].kind = "del"

\* C15 witness: an unfollow has committed and brought both counters of the
\* pair back to zero.
C15_Witness ==
    /\ last.req.op = "unfollow" /\ last.h.committed
    /\ db.users[last.req.user_id].following_count = 0
    /\ db.users[last.req.target].followers_count = 0

\* A timeline or a list of a user's tweets has been returned.
TimelineOk == last.req.op = "timeline" /\ last.resp.success
UserTweetsOk == last.req.op = "user_tweets" /\ last.resp.success

Ids(seq) == {seq[i].id : i \in 1..Len(seq)}

\* The tweets of u and of the users u follows, and the tweets of u alone.
Eligible(u) ==
    {t \in DOMAIN db.tweets :
        \/ db.tweets[t].user_id = u
        \/ BagIn(<<u, db.tweets[t].user_id>>, db.follows)}
OwnTweets(u) == {t \in DOMAIN db.tweets : db.tweets[t].user_id = u}

\* Every entry is a stored tweet with its owner and creation time, no tweet
\* is listed twice, and no entry is older than the one after it.
NewestFirst(seq) ==
    /\ Cardinality(Ids(seq)) = Len(seq)
    /\ \A i \in 1..Len(seq) :
          /\ seq[i].id \in DOMAIN db.tweets
          /\ seq[i].user_id = db.tweets[seq[i].id].user_id
          /\ seq[i].created_at = db.tweets[seq[i].id].created_at
    /\ \A i \in 1..(Len(seq) - 1) : seq[i].created_at >= seq[i + 1].created_at

\* C16: a timeline holds only tweets whose owner the caller follows or is,
\* newest first, all of them if they are at most 50 and otherwise 50 of
\* them such that no tweet left out is newer than a tweet listed.
C16_TimelineFirstFifty ==
    TimelineOk =>
        LET data == last.resp.data[1]
            E == Eligible(last.req.user_id)
        IN  /\ Ids(data) \subseteq E
            /\ NewestFirst(data)
            /\ Len(data) <= TimelineLimit
            /\ Len(data) = (IF Cardinality(E) <= TimelineLimit
                            THEN Cardinality(E) ELSE TimelineLimit)
            /\ \A t \in E \ Ids(data) :
                  db.tweets[t].created_at <= data[Len(data)].created_at

\* C16 witness: a timeline of 50 tweets from a store that holds a further
\* tweet of the caller and a tweet of a user the caller does not follow.
C16_Witness ==
    /\ TimelineOk
    /\ Len(last.resp.data[1]) = TimelineLimit
    /\ Eligible(last.req.user_id) \ Ids(last.resp.data[1]) # {}
    /\ DOMAIN db.tweets \ Eligible(last.req.user_id) # {}

C18_TimelineDeterministic ==
    TimelineOk =>
        \A tie \in TieOrders :
            LET rows == TimelineQuery(db, last.req.user_id, tie)
            IN  /\ Len(rows) = Len(last.resp.data[1])
                /\ \A i \in 1..Len(rows) : rows[i].id = last.resp.data[1][i].id

\* C19: in a timeline is_liked of an entry is true exactly when the caller
\* has a Like edge on the tweet.
C19_IsLikedExact ==
    TimelineOk =>
        \A i \in 1..Len(last.resp.data[1]) :
            last.resp.data[1][i].is_liked =
                (<<last.req.user_id, last.resp.data[1][i].id>> \in db.likes)

\* C20: the list of a user's tweets holds all tweets of the user and no
\* other, newest first, with is_liked false on every entry.
C20_UserTweets ==
    UserTweetsOk =>
        LET data == last.resp.data[1]
        IN  /\ Ids(data) = OwnTweets(last.req.username)
            /\ NewestFirst(data)
            /\ \A i \in 1..Len(data) : ~data[i].is_liked

\* C20 witness: a list of more than 50 tweets of a user, one of them with
\* likes, from a store that holds a tweet of another user too.
C20_Witness ==
    /\ UserTweetsOk
    /\ Len(last.resp.data[1]) > TimelineLimit
    /\ \E i \in 1..Len(last.resp.data[1]) : last.resp.data[1][i].likes_count > 0
    /\ DOMAIN db.tweets \ OwnTweets(last.req.username) # {}
\* C21: createPost of content shorter than 1 or longer than 280 characters
\* is rejected with the validation error and stores no tweet, whoever calls;
\* an authenticated createPost of 1 to 280 characters that meets no storage
\* failure succeeds, and the tweet it stored has likes_count 0.
C21_CreateValidatesLength ==
    last.req.op = "create" =>
        LET inRange == ContentMin <= last.req.len /\ last.req.len <= ContentMax
        IN  /\ ~inRange =>
                  /\ last.resp = Failure(400, "Validation error")
                  /\ last.req.tweet_id = NoTweet
                  /\ ~last.h.failed
            /\ (inRange /\ last.req.user_id # NoUser /\ ~last.h.failed) =>
                  last.resp.success
            /\ last.resp.success =>
                  /\ inRange
                  /\ last.resp.status = 201
                  /\ last.req.tweet_id # NoTweet
                  /\ last.resp.data[1].id = last.req.tweet_id
                  /\ last.resp.data[1].user_id = last.req.user_id
                  /\ last.resp.data[1].likes_count = 0

\* A tweet of 280 characters has been stored.
C21_Witness ==
    /\ last.req.op = "create"
    /\ last.req.len = ContentMax
    /\ last.resp.success
    /\ last.req.tweet_id \in DOMAIN db.tweets
    /\ db.tweets[last.req.tweet_id].likes_count = 0

\* C22: deletePost removes the tweet only if the caller owns it; the tweet
\* of another user stays stored, and the caller gets the same not-found
\* response as for an id under which no tweet is stored.
C22_DeleteOwnOnly ==
    (last.req.op = "delete" /\ last.req.user_id # NoUser) =>
        /\ last.resp.success =>
              /\ last.h.saw = "mine"
              /\ last.req.tweet_id \notin DOMAIN db.tweets
        /\ (last.h.saw = "mine" /\ ~last.h.failed) => last.resp.success
        /\ (last.h.saw \in {"other", "absent"} /\ ~last.h.failed) =>
              last.resp = Failure(404, "Tweet not found or unauthorized")
        /\ last.h.saw = "other" =>
              /\ last.req.tweet_id \in DOMAIN db.tweets
              /\ db.tweets[last.req.tweet_id].user_id # last.req.user_id

\* Another user's tweet has been asked to be deleted and is still stored.
C22_Witness ==
    /\ last.req.op = "delete"
    /\ last.h.saw = "other"
    /\ last.resp.status = 404
    /\ last.req.tweet_id \in DOMAIN db.tweets

\* C30: a createPost that answers with a failure has stored no tweet.
C30_CreateFailureStoresNothing ==
    (last.req.op = "create" /\ ~last.resp.success) =>
        last.req.tweet_id = NoTweet

\* C29: in every reachable state every Like edge references a stored tweet.
C29_LikesReferenceTweets == \A l \in db.likes : l[2] \in DOMAIN db.tweets

\* The usernames and the emails of the users are unique.
UniqueAccounts ==
    \A u, v \in DOMAIN db.users :
        u # v => /\ db.users[u].username # db.users[v].username
                 /\ db.users[u].email # db.users[v].email

\* C23: a register that meets a user with its username or its email, at
\* its lookup or at its INSERT, answers with the 400-class conflict and
\* creates no user; usernames and emails are unique in every reachable state.
C23_DuplicateRegistrationConflicts ==
    /\ UniqueAccounts
    /\ (/\ last.req.op = "register"
        /\ ~last.h.checkErr /\ ~last.h.failed
        /\ last.h.saw = "present" \/ last.h.uniq) =>
          /\ last.resp.status = 400
          /\ ~last.resp.success
          /\ ~last.h.committed

\* C24: a successful updateProfile sets the fields the request supplies,
\* among display_name, bio, profile_image and banner_image of the caller's
\* row, to the supplied values and changes nothing else in the store; an
\* updateProfile that fails changes nothing at all.
C24_UpdateStep ==
    last'.req.op = "update_profile" =>
        LET u == last'.req.user_id
            body == last'.req.body
        IN  IF last'.resp.success
            THEN /\ db'.follows = db.follows /\ db'.likes = db.likes
                 /\ db'.tweets = db.tweets
                 /\ DOMAIN db'.users = DOMAIN db.users
                 /\ \A v \in DOMAIN db.users \ {u} : db'.users[v] = db.users[v]
                 /\ \A f \in ProfileFields :
                       db'.users[u][f] = IF body[f] # None THEN body[f] ELSE db.users[u][f]
                 /\ \A f \in DOMAIN db.users[u] \ ProfileFields :
                       db'.users[u][f] = db.users[u][f]
            ELSE db' = db

C24_UpdateChangesSuppliedFields == [][C24_UpdateStep]_vars

\* An update that supplies the display name alone has kept the bio that an
\* earlier update set.
C24_Witness ==
    /\ last.req.op = "update_profile"
    /\ last.resp.success
    /\ last.req.body.display_name # None
    /\ last.req.body.bio = None
    /\ db.users[last.req.user_id].bio # None

\* C25: an updateProfile whose id resolves to no user answers with the
\* 404 not-found error.
C25_UpdateUnknownIsNotFound ==
    (last.req.op = "update_profile" /\ last.h.saw = "absent" /\ ~last.h.failed) =>
        /\ last.resp.status = 404
        /\ ~last.resp.success

\* C26: a response carries a data payload exactly if it reports success.
C26_DataIffSuccess ==
    last # NoLast => (last.resp.success <=> last.resp.data # None)

\* A request has answered with a failure and without data.
C26_Witness ==
    /\ last.req.op = "like"
    /\ last.resp.status = 400
    /\ ~last.resp.success
    /\ last.resp.data = None

\* C27: when a like that answered success is followed, with no other request
\* in between, by the unlike of the same user and tweet, and that answers
\* success, the likes table and the tweets (with their likes_count) are what
\* they were before the like; when a follow is followed in this way by the
\* unfollow of the same pair, the follows table and the users (with their
\* counters) are what they were before the follow.
C27_InverseRestores ==
    /\ (/\ undo.phase = "done" /\ undo.op = "like"
        /\ undo.key[2] \in DOMAIN undo.before.tweets) =>
          db.likes = undo.before.likes /\ db.tweets = undo.before.tweets
    /\ (undo.phase = "done" /\ undo.op = "follow") =>
          db.follows = undo.before.follows /\ db.users = undo.before.users

\* The request of the handler that takes the step, if a handler takes it.
Acting ==
    IF last'.proc # 0 THEN last'.req
    ELSE LET P == {p \in Procs : pc'[p] # pc[p] \/ h'[p] # h[p] \/ tx'[p] # tx[p]}
         IN  IF P = {} THEN NoReq ELSE req'[CHOOSE p \in P : TRUE]

FollowCounters == {"followers_count", "following_count"}

\* C28: a step of follow or unfollow changes nothing but the rows of its
\* pair in follows and the two counters of its follower and its target; a
\* step of like or unlike changes nothing but the row of its pair in likes
\* and the likes_count of its tweet; no step of any handler changes the
\* retweets_count or the replies_count of a tweet, and both start at zero.
C28_FrameStep ==
    LET r == Acting
    IN  /\ r.op \in {"follow", "unfollow"} =>
              /\ db'.likes = db.likes /\ db'.tweets = db.tweets
              /\ DOMAIN db'.users = DOMAIN db.users
              /\ \A u \in DOMAIN db.users :
                    IF u \in {r.user_id, r.target}
                    THEN \A f \in DOMAIN db.users[u] \ FollowCounters :
                            db'.users[u][f] = db.users[u][f]
                    ELSE db'.users[u] = db.users[u]
              /\ \A k \in (DOMAIN db.follows \cup DOMAIN db'.follows) \ {FollowKey(r)} :
                    CopiesIn(k, db'.follows) = CopiesIn(k, db.follows)
        /\ r.op \in {"like", "unlike"} =>
              /\ db'.follows = db.follows /\ db'.users = db.users
              /\ db'.likes \ {LikeKey(r)} = db.likes \ {LikeKey(r)}
              /\ DOMAIN db'.tweets = DOMAIN db.tweets
              /\ \A t \in DOMAIN db.tweets :
                    IF t = r.tweet_id
                    THEN \A f \in DOMAIN db.tweets[t] \ {"likes_count"} :
                            db'.tweets[t][f] = db.tweets[t][f]
                    ELSE db'.tweets[t] = db.tweets[t]
        /\ \A t \in DOMAIN db'.tweets :
              IF t \in DOMAIN db.tweets
              THEN /\ db'.tweets[t].retweets_count = db.tweets[t].retweets_count
                   /\ db'.tweets[t].replies_count = db.tweets[t].replies_count
              ELSE /\ db'.tweets[t].retweets_count = 0
                   /\ db'.tweets[t].replies_count = 0

C28_DisjointRows == [][C28_FrameStep]_vars

\* A follow has committed in a store that holds a like, a tweet and a user
\* who is neither its follower nor its target.
C28_Witness ==
    /\ last.req.op = "follow"
    /\ last.h.committed
    /\ db.users[last.req.target].followers_count = 1
    /\ db.likes # {}
    /\ Bystander \in DOMAIN db.users \ {last.req.user_id, last.req.target}

\* C31 as claimed: an entry of a timeline with is_liked = true has
\* likes_count >= 1.
C31_LikedHasCount ==
    TimelineOk =>
        \A i \in 1..Len(last.resp.data[1]) :
            last.resp.data[1][i].is_liked => last.resp.data[1][i].likes_count >= 1

\* C31, amended: the likes_count of an entry is the one the feed query read,
\* and an entry has is_liked = true only if its tweet, unless deleted by
\* then, had likes_count >= 1 in the committed state its like lookup read;
\* the two reads may be of different committed states.
C31_EachReadCommitted ==
    TimelineOk =>
        LET data == last.resp.data[1]
        IN  /\ Len(data) = Len(last.h.feed) /\ Len(last.h.seen) = Len(data)
            /\ \A i \in 1..Len(data) :
                  /\ data[i].id = last.h.feed[i].id
                  /\ data[i].likes_count = last.h.feed[i].likes_count
                  /\ data[i].is_liked =>
                        last.h.seen[i] >= 1 \/ last.h.seen[i] = -1

\* A timeline has an entry with is_liked = true and likes_count = 0: the
\* caller's like committed between the feed query and the lookup.
C31_Witness ==
    /\ TimelineOk
    /\ \E i \in 1..Len(last.resp.data[1]) :
          /\ last.resp.data[1][i].is_liked
          /\ last.resp.data[1][i].likes_count = 0
          /\ last.h.seen[i] = 1

====
